---- MODULE Spec2Model ----
(***************************************************************************)
(* Model of static/js/script.js, the chat widget of the Schuldenkompass.   *)
(*                                                                         *)
(* The page runs on one event loop: every handler (submit, click,          *)
(* keypress) and every continuation of sendMessage after an await runs to  *)
(* completion, so each is one action.  sendMessage suspends twice: at      *)
(* `await fetch(...)` and at `await response.json()`.                      *)
(*                                                                         *)
(* Texts are sequences of tokens; what the user types is a sequence of     *)
(* one-character tokens so that String.prototype.trim can be computed.     *)
(***************************************************************************)
EXTENDS Naturals, Sequences, FiniteSets

\* ---------------------------------------------------------------- bounds
MaxSubmits == 2  \* accepted submissions per page session
MaxPad == 1      \* whitespace characters around the typed text

\* ------------------------------------------------------------ vocabulary
Whitespace == {" "}
Words == {<<"a", " ", "a">>}  \* what the user types, without the padding

NULL == "null"            \* the JavaScript value null
UNDEF == "undefined"      \* the JavaScript value undefined (absent field)
ServerIds == {"c1", "c2"} \* conversation ids a server hands out

GREETING == <<"GREETING">>
ERROR_TEXT == <<"Es ist ein Fehler aufgetreten. Bitte versuche es spaeter noch einmal.">>
ReplyTexts == {<<"Hallo!">>}
ServerErrorTexts == {<<"boom">>}

Spaces(n) == [k \in 1..n |-> " "]

\* Values of the input field: nothing or a word, with whitespace before and
\* after it.
InputValues ==
    {Spaces(l) \o w \o Spaces(r) :
        w \in Words \cup {<<>>}, l \in 0..MaxPad, r \in 0..MaxPad}

\* Bodies `response.json()` can resolve to.  A success body may carry a
\* string id, null, or no conversation_id field at all.
SuccessBodies ==
    {[status |-> "success", conversation_id |-> c, response |-> r] :
        c \in ServerIds \cup {NULL}, r \in ReplyTexts}
    \cup {[status |-> "success", response |-> r] : r \in ReplyTexts}

FailureBodies == {[status |-> "error", error |-> e] : e \in ServerErrorTexts}

ResponseBodies == SuccessBodies \cup FailureBodies

\* ----------------------------------------------------------------- state
VARIABLES
    messages,        \* children of messagesContainer, in document order
    inputValue,      \* messageInput.value
    conversationId,  \* the closure variable conversationId
    exchanges,       \* the sendMessage calls made so far, by call number
    trace,           \* history of render and transport effects
    lastEvent,       \* the event-loop task that ran last
    lastSettled      \* how the exchange that completed last ended

vars == <<messages, inputValue, conversationId, exchanges, trace, lastEvent, lastSettled>>

\* The part of the state the handlers read and write, as one record.
Cur ==
    [messages |-> messages, inputValue |-> inputValue,
     conversationId |-> conversationId, exchanges |-> exchanges,
     trace |-> trace]

\* ------------------------------------------------------- pure operations
RECURSIVE TrimStart(_)
TrimStart(s) ==
    IF s = <<>> THEN s
    ELSE IF Head(s) \in Whitespace THEN TrimStart(Tail(s)) ELSE s

RECURSIVE TrimEnd(_)
TrimEnd(s) ==
    IF s = <<>> THEN s
    ELSE IF s[Len(s)] \in Whitespace THEN TrimEnd(SubSeq(s, 1, Len(s) - 1)) ELSE s

\* String.prototype.trim
Trim(s) == TrimEnd(TrimStart(s))

\* Property read on a parsed body: a missing field reads as undefined.
Field(data, name) == IF name \in DOMAIN data THEN data[name] ELSE UNDEF

\* Variant: the body is built with a null conversation_id.
JSONstringify_nullId(message, cid) ==
    [message |-> message, conversation_id |-> NULL]

\* JSON.stringify of {message, conversation_id}: a property whose value is
\* undefined is left out of the body; null and strings are kept.
JSONstringify(message, cid) ==
    IF cid = UNDEF THEN [message |-> message]
    ELSE [message |-> message, conversation_id |-> cid]

\* ------------------------------------------------------------ DOM helpers
RemoveAt(s, i) == SubSeq(s, 1, i - 1) \o SubSeq(s, i + 1, Len(s))

TypingPositions(ms) == {i \in DOMAIN ms : ms[i].kind = "typing"}

Min(S) == CHOOSE x \in S : \A y \in S : x <= y

Effect(ev, xid) == [ev |-> ev, xid |-> xid]

\* Variant: a new node is inserted at the top of the list.
addMessage_prepends(st, content, isUser, xid) ==
    [st EXCEPT
        !.messages = <<[kind |-> IF isUser THEN "user" ELSE "bot",
                        content |-> content, xid |-> xid]>> \o @,
        !.trace = Append(@, Effect(IF isUser THEN "user" ELSE "bot", xid))]

\* addMessage(content, isUser); xid is the sendMessage call the node belongs
\* to (0 for the greeting).
addMessage(st, content, isUser, xid) ==
    [st EXCEPT
        !.messages = Append(@, [kind |-> IF isUser THEN "user" ELSE "bot",
                                content |-> content, xid |-> xid]),
        !.trace = Append(@, Effect(IF isUser THEN "user" ELSE "bot", xid))]

addBotMessage(st, content, xid) == addMessage(st, content, FALSE, xid)

\* Variant: no second indicator is appended while one is shown.
showTypingIndicator_reusesNode(st, xid) ==
    IF TypingPositions(st.messages) # {}
    THEN [st EXCEPT !.trace = Append(@, Effect("typing", xid))]
    ELSE [st EXCEPT
            !.messages = Append(@, [kind |-> "typing", content |-> <<>>, xid |-> xid]),
            !.trace = Append(@, Effect("typing", xid))]

showTypingIndicator(st, xid) ==
    [st EXCEPT
        !.messages = Append(@, [kind |-> "typing", content |-> <<>>, xid |-> xid]),
        !.trace = Append(@, Effect("typing", xid))]

\* Variant: each call removes the indicator its own sendMessage call added.
hideTypingIndicator_removesOwn(st, xid) ==
    LET own == {i \in DOMAIN st.messages :
                    st.messages[i].kind = "typing" /\ st.messages[i].xid = xid}
    IN  IF own = {} THEN st
        ELSE [st EXCEPT
                !.messages = RemoveAt(@, Min(own)),
                !.trace = Append(@, Effect("hide", xid))]

\* Variant: removes every node that carries the indicator's id.
hideTypingIndicator_removesAll(st, xid) ==
    IF TypingPositions(st.messages) = {} THEN st
    ELSE [st EXCEPT
            !.messages = SelectSeq(@, LAMBDA n : n.kind # "typing"),
            !.trace = Append(@, Effect("hide", xid))]

\* getElementById returns the first element with the id in document order.
hideTypingIndicator(st, xid) ==
    IF TypingPositions(st.messages) = {} THEN st
    ELSE [st EXCEPT
            !.messages = RemoveAt(@, Min(TypingPositions(st.messages))),
            !.trace = Append(@, Effect("hide", xid))]

\* ---------------------------------------------------------- sendMessage
\* sendMessage up to its first await: indicator, then the fetch call with
\* the body built from the current conversationId.
sendMessage(st, message) ==
    LET xid == Len(st.exchanges) + 1
        s1 == showTypingIndicator(st, xid)
    IN  [s1 EXCEPT
            !.exchanges = Append(@, [pc |-> "fetch",
                                     body |-> JSONstringify(message, s1.conversationId)]),
            !.trace = Append(@, Effect("request", xid))]

\* Variant: the catch block sends the request again.
catchBlock_retries(st, xid) ==
    LET s1 == hideTypingIndicator(st, xid)
        s2 == addBotMessage(s1, ERROR_TEXT, xid)
    IN  [s2 EXCEPT !.exchanges[xid].pc = "fetch",
                   !.trace = Append(@, Effect("request", xid))]

\* Variant: the catch block also resets conversationId.
catchBlock_clearsId(st, xid) ==
    LET s1 == hideTypingIndicator(st, xid)
        s2 == addBotMessage(s1, ERROR_TEXT, xid)
    IN  [s2 EXCEPT !.exchanges[xid].pc = "done", !.conversationId = NULL]

\* The catch block.
catchBlock(st, xid) ==
    LET s1 == hideTypingIndicator(st, xid)
        s2 == addBotMessage(s1, ERROR_TEXT, xid)
    IN  [s2 EXCEPT !.exchanges[xid].pc = "done"]

\* Variant: a reply is dropped when a later submission has been made.
successBranch_dropsStale(st, xid, data) ==
    LET s1 == [st EXCEPT !.conversationId = Field(data, "conversation_id")]
        s2 == hideTypingIndicator(s1, xid)
        s3 == IF xid < Len(st.exchanges) THEN s2
              ELSE addBotMessage(s2, Field(data, "response"), xid)
    IN  [s3 EXCEPT !.exchanges[xid].pc = "done"]

\* Variant: the identifier is stored only while none is stored yet.
successBranch_keepsFirstId(st, xid, data) ==
    LET s1 == IF st.conversationId = NULL
              THEN [st EXCEPT !.conversationId = Field(data, "conversation_id")]
              ELSE st
        s2 == hideTypingIndicator(s1, xid)
        s3 == addBotMessage(s2, Field(data, "response"), xid)
    IN  [s3 EXCEPT !.exchanges[xid].pc = "done"]

\* The branch taken when data.status === 'success'.
successBranch(st, xid, data) ==
    LET s1 == [st EXCEPT !.conversationId = Field(data, "conversation_id")]
        s2 == hideTypingIndicator(s1, xid)
        s3 == addBotMessage(s2, Field(data, "response"), xid)
    IN  [s3 EXCEPT !.exchanges[xid].pc = "done"]

\* Variant: a non-success body shows the server's error text.
afterJson_showsServerError(st, xid, data) ==
    IF Field(data, "status") = "success"
    THEN successBranch(st, xid, data)
    ELSE LET s1 == hideTypingIndicator(st, xid)
             s2 == addBotMessage(s1, Field(data, "error"), xid)
         IN  [s2 EXCEPT !.exchanges[xid].pc = "done"]

\* Variant: a non-success body throws outside the try block, so the call
\* ends without hiding the indicator or rendering anything.
afterJson_rethrows(st, xid, data) ==
    IF Field(data, "status") = "success"
    THEN successBranch(st, xid, data)
    ELSE [st EXCEPT !.exchanges[xid].pc = "done"]

\* The continuation after `await response.json()` resolved with data.
afterJson(st, xid, data) ==
    IF Field(data, "status") = "success"
    THEN successBranch(st, xid, data)
    ELSE catchBlock(st, xid)

\* -------------------------------------------------------- submit handler
\* Variant: the value is tested and sent untrimmed.
submitHandler_noTrim(st) ==
    LET message == st.inputValue
    IN  IF message # <<>>
        THEN LET s1 == addMessage(st, message, TRUE, Len(st.exchanges) + 1)
                 s2 == [s1 EXCEPT !.inputValue = <<>>]
             IN  sendMessage(s2, message)
        ELSE st

\* Variant: sendMessage is called before the user message is rendered.
submitHandler_sendsFirst(st) ==
    LET message == Trim(st.inputValue)
    IN  IF message # <<>>
        THEN LET s1 == sendMessage(st, message)
                 s2 == addMessage(s1, message, TRUE, Len(s1.exchanges))
             IN  [s2 EXCEPT !.inputValue = <<>>]
        ELSE st

\* Variant: the user message is rendered trimmed, the raw value is sent.
submitHandler_sendsRaw(st) ==
    LET message == Trim(st.inputValue)
    IN  IF message # <<>>
        THEN LET s1 == addMessage(st, message, TRUE, Len(st.exchanges) + 1)
                 s2 == [s1 EXCEPT !.inputValue = <<>>]
             IN  sendMessage(s2, st.inputValue)
        ELSE st

\* Variant: every accepted submission starts a new conversation.
submitHandler_resetsId(st) ==
    LET message == Trim(st.inputValue)
    IN  IF message # <<>>
        THEN LET s1 == addMessage(st, message, TRUE, Len(st.exchanges) + 1)
                 s2 == [s1 EXCEPT !.inputValue = <<>>, !.conversationId = NULL]
             IN  sendMessage(s2, message)
        ELSE st

\* Variant: the input field is not cleared.
submitHandler_keepsInput(st) ==
    LET message == Trim(st.inputValue)
    IN  IF message # <<>>
        THEN LET s1 == addMessage(st, message, TRUE, Len(st.exchanges) + 1)
             IN  sendMessage(s1, message)
        ELSE st

submitHandler(st) ==
    LET message == Trim(st.inputValue)
    IN  IF message # <<>>
        THEN LET s1 == addMessage(st, message, TRUE, Len(st.exchanges) + 1)
                 s2 == [s1 EXCEPT !.inputValue = <<>>]
             IN  sendMessage(s2, message)
        ELSE st

\* ---------------------------------------------------------------- actions
Commit(st, ev) ==
    /\ messages' = st.messages
    /\ inputValue' = st.inputValue
    /\ conversationId' = st.conversationId
    /\ exchanges' = st.exchanges
    /\ trace' = st.trace
    /\ lastEvent' = ev

\* What lastEvent records of a task: its kind ("gesture" for a submit,
\* click or keypress, "settled" for a continuation that completed an
\* exchange, "other" otherwise), how often it ran the submit handler and
\* how many submissions it accepted.
Task(type, runs, accepted) == [type |-> type, runs |-> runs, accepted |-> accepted]

\* A user gesture that ran the submit handler `runs` times and ended in
\* state st.
Gesture(st, runs) ==
    /\ Len(st.exchanges) <= MaxSubmits
    /\ Commit(st, Task("gesture", runs, Len(st.exchanges) - Len(exchanges)))
    /\ UNCHANGED lastSettled

\* A continuation of a sendMessage call that completed its exchange.
Settle(st, outcome) ==
    /\ Commit(st, Task("settled", 0, 0))
    /\ lastSettled' = outcome

\* Variant: the greeting is rendered twice.
Init_greetsTwice ==
    LET s0 == [messages |-> <<>>, inputValue |-> <<>>, conversationId |-> NULL,
               exchanges |-> <<>>, trace |-> <<>>]
        s1 == addBotMessage(addBotMessage(s0, GREETING, 0), GREETING, 0)
    IN  /\ messages = s1.messages
        /\ inputValue = s1.inputValue
        /\ conversationId = s1.conversationId
        /\ exchanges = s1.exchanges
        /\ trace = s1.trace
        /\ lastEvent = Task("other", 0, 0)
        /\ lastSettled = [cause |-> "none", xid |-> 0]

Init ==
    LET s0 == [messages |-> <<>>, inputValue |-> <<>>, conversationId |-> NULL,
               exchanges |-> <<>>, trace |-> <<>>]
        s1 == addBotMessage(s0, GREETING, 0)
    IN  /\ messages = s1.messages
        /\ inputValue = s1.inputValue
        /\ conversationId = s1.conversationId
        /\ exchanges = s1.exchanges
        /\ trace = s1.trace
        /\ lastEvent = Task("other", 0, 0)
        /\ lastSettled = [cause |-> "none", xid |-> 0]

\* The user edits the input field (as long as the session bound leaves room
\* for a further submission).
TypeText ==
    /\ Len(exchanges) < MaxSubmits
    /\ \E v \in InputValues \ {inputValue} :
          /\ Commit([Cur EXCEPT !.inputValue = v], Task("other", 0, 0))
          /\ UNCHANGED lastSettled

\* A submit event reaches the form directly.
FormSubmit == Gesture(submitHandler(Cur), 1)

\* A click on the send button: the click listener dispatches a synthetic
\* submit; when the button is the form's submit button the browser's native
\* submit follows in the same task.
SendButtonClick ==
    \E native \in BOOLEAN :
        LET s1 == submitHandler(Cur)
        IN  IF native
            THEN Gesture(submitHandler(s1), 2)
            ELSE Gesture(s1, 1)

\* A keypress of Enter in the input field; with shift the listener does
\* nothing.
EnterKeypress ==
    \E shiftKey \in BOOLEAN :
        IF ~shiftKey
        THEN Gesture(submitHandler(Cur), 1)
        ELSE Commit(Cur, Task("other", 0, 0)) /\ UNCHANGED lastSettled

\* fetch resolves: sendMessage goes on to `await response.json()`.
FetchResolve(i) ==
    /\ i \in DOMAIN exchanges
    /\ exchanges[i].pc = "fetch"
    /\ Commit([Cur EXCEPT !.exchanges[i].pc = "json"], Task("other", 0, 0))
    /\ UNCHANGED lastSettled

\* fetch rejects (transport failure).
FetchReject(i) ==
    /\ i \in DOMAIN exchanges
    /\ exchanges[i].pc = "fetch"
    /\ Settle(catchBlock(Cur, i), [cause |-> "rejected", xid |-> i])

\* response.json() rejects (body not parseable).
JsonReject(i) ==
    /\ i \in DOMAIN exchanges
    /\ exchanges[i].pc = "json"
    /\ Settle(catchBlock(Cur, i), [cause |-> "unparseable", xid |-> i])

\* response.json() resolves with a body.
JsonResolve(i) ==
    /\ i \in DOMAIN exchanges
    /\ exchanges[i].pc = "json"
    /\ \E data \in ResponseBodies :
          Settle(afterJson(Cur, i, data),
                 [cause |-> "response", xid |-> i, data |-> data])

Next ==
    \/ TypeText
    \/ FormSubmit
    \/ SendButtonClick
    \/ EnterKeypress
    \/ \E i \in 1..MaxSubmits : FetchResolve(i)
    \/ \E i \in 1..MaxSubmits : FetchReject(i)
    \/ \E i \in 1..MaxSubmits : JsonReject(i)
    \/ \E i \in 1..MaxSubmits : JsonResolve(i)

Spec == Init /\ [][Next]_vars

\* Every dispatched request eventually settles, and so does the reading of
\* its body.
FairSpec ==
    /\ Spec
    /\ \A i \in 1..MaxSubmits :
          /\ WF_vars(FetchResolve(i) \/ FetchReject(i))
          /\ WF_vars(JsonResolve(i) \/ JsonReject(i))

\* ------------------------------------------------- vocabulary of the claims
IsSet(c) == c \notin {NULL, UNDEF}

TypingCount == Cardinality(TypingPositions(messages))

NodesOf(ms, kind, xid) == {p \in DOMAIN ms : ms[p].kind = kind /\ ms[p].xid = xid}

UserCount(ms) == Cardinality({p \in DOMAIN ms : ms[p].kind = "user"})

InFlight == {i \in DOMAIN exchanges : exchanges[i].pc # "done"}

Completed == {i \in DOMAIN exchanges : exchanges[i].pc = "done"}

EffectPositions(ev, xid) == {p \in DOMAIN trace : trace[p] = Effect(ev, xid)}

\* The task that ran last completed an exchange.
JustSettled == lastEvent.type = "settled"

SettledBySuccess ==
    /\ lastSettled.cause = "response"
    /\ Field(lastSettled.data, "status") = "success"

SettledByFailure ==
    \/ lastSettled.cause \in {"rejected", "unparseable"}
    \/ /\ lastSettled.cause = "response"
       /\ Field(lastSettled.data, "status") # "success"

\* C1: in every reachable state the message list holds at most one
\* typing-indicator node.
C1_AtMostOneIndicator == TypingCount <= 1

\* C2 as stated: once conversationId is non-null it is non-null in every
\* later state, whatever a success response carries.
C2_NeverCleared == [][IsSet(conversationId) => IsSet(conversationId')]_vars

\* C2 amended: a non-null conversationId becomes null or undefined only in
\* the step that processes a success response carrying no conversation_id
\* or a null one; submissions, failures and success responses that carry an
\* id keep it non-null.
C2_ClearedOnlyBySuccessWithoutId ==
    [][(IsSet(conversationId) /\ ~IsSet(conversationId'))
        => /\ lastEvent'.type = "settled"
           /\ lastSettled'.cause = "response"
           /\ Field(lastSettled'.data, "status") = "success"
           /\ ~IsSet(Field(lastSettled'.data, "conversation_id"))]_vars

\* A failure was processed while conversationId was set, and it is still set.
C2_Witness == JustSettled /\ SettledByFailure /\ IsSet(conversationId)

\* C3: a submit event fired while the input is empty or whitespace-only
\* changes neither the message list, nor conversationId, nor the exchanges,
\* and produces no render or transport effect.
C3_EmptySubmitIsNoOp ==
    [][(lastEvent'.runs >= 1 /\ Trim(inputValue) = <<>>)
        => UNCHANGED <<messages, conversationId, exchanges, trace, inputValue>>]_vars

\* A submit handler ran on a whitespace-only input.
C3_Witness ==
    /\ lastEvent.runs >= 1
    /\ lastEvent.accepted = 0
    /\ inputValue # <<>>
    /\ Trim(inputValue) = <<>>

\* C4: for every accepted submission the user node is appended, then the
\* typing indicator, then the request is dispatched, and only then the bot
\* reply or error message; in the message list the user node precedes every
\* typing and bot node of the same submission.
C4_SubmissionOrder ==
    \A i \in DOMAIN exchanges :
        LET U == EffectPositions("user", i)
            T == EffectPositions("typing", i)
            R == EffectPositions("request", i)
            B == EffectPositions("bot", i)
            nodeU == NodesOf(messages, "user", i)
        IN  /\ U # {} /\ T # {} /\ R # {}
            /\ \A u \in U, t \in T, r \in R :
                  /\ u < t
                  /\ t < r
                  /\ \A b \in B : r < b
            /\ nodeU # {}
            /\ \A u \in nodeU :
                  /\ messages[u].content = exchanges[i].body.message
                  /\ \A q \in DOMAIN messages :
                        (messages[q].xid = i /\ messages[q].kind # "user") => u < q

\* An exchange has completed while the indicator of a later one is shown.
C4_Witness ==
    \E i, j \in DOMAIN exchanges :
        /\ NodesOf(messages, "bot", i) # {}
        /\ NodesOf(messages, "typing", j) # {}

\* C5: processing a success response {conversation_id: c, response: r}
\* appends a bot node with content r and sets conversationId to c, and the
\* next submission accepted before any other response is processed sends
\* conversation_id = c.
C5_SuccessStoresAndEchoesId ==
    [][/\ (lastEvent'.type = "settled" /\ lastSettled'.cause = "response"
             /\ Field(lastSettled'.data, "status") = "success")
          => /\ messages'[Len(messages')] =
                  [kind |-> "bot", content |-> lastSettled'.data.response,
                   xid |-> lastSettled'.xid]
             /\ Cardinality(NodesOf(messages', "bot", lastSettled'.xid)) = 1
             /\ conversationId' = Field(lastSettled'.data, "conversation_id")
       /\ (SettledBySuccess /\ lastSettled' = lastSettled
             /\ Len(exchanges') = Len(exchanges) + 1)
          => Field(exchanges'[Len(exchanges')].body, "conversation_id")
               = Field(lastSettled.data, "conversation_id")]_vars

\* A submission was accepted right after a success response with an id, and
\* its request carries that id.
C5_Witness ==
    /\ lastEvent.accepted = 1
    /\ SettledBySuccess
    /\ IsSet(Field(lastSettled.data, "conversation_id"))
    /\ lastSettled.xid < Len(exchanges)
    /\ \A p \in EffectPositions("bot", lastSettled.xid) :
          \E q \in EffectPositions("request", Len(exchanges)) : p < q
    /\ exchanges[Len(exchanges)].body.conversation_id \in ServerIds

\* C6: right after any response has been processed, no typing-indicator
\* node remains in the message list.
C6_NoIndicatorAfterResponse == JustSettled => TypingCount = 0

\* C7: whenever at least one exchange is in flight, a typing-indicator node
\* is present, also after one of several overlapping exchanges completed.
C7_IndicatorWhileInFlight == InFlight # {} => TypingCount >= 1

\* One of two overlapping exchanges has completed, the other is in flight.
C7_Witness ==
    /\ JustSettled
    /\ InFlight # {}
    /\ \E j \in InFlight :
          \A b \in EffectPositions("bot", lastSettled.xid) :
              \E r \in EffectPositions("request", j) : r < b

\* C8: an exchange that ends with a non-success status, an unparseable body
\* or a transport rejection appends exactly one bot node, whose content is
\* the fixed error text, and no node ever shows the server's error text.
C8_GenericErrorOnly ==
    /\ (JustSettled /\ SettledByFailure)
          => /\ messages[Len(messages)] =
                  [kind |-> "bot", content |-> ERROR_TEXT, xid |-> lastSettled.xid]
             /\ Cardinality(NodesOf(messages, "bot", lastSettled.xid)) = 1
    /\ \A p \in DOMAIN messages : messages[p].content \notin ServerErrorTexts

\* A non-success status was processed after an earlier failure; both show
\* the same text.
C8_Witness ==
    /\ JustSettled
    /\ lastSettled.cause = "response"
    /\ SettledByFailure
    /\ "error" \in DOMAIN lastSettled.data
    /\ Cardinality({p \in DOMAIN messages : messages[p].content = ERROR_TEXT}) >= 2

\* C9: with a non-empty (trimmed) input, one gesture of any kind appends
\* exactly one user node and dispatches exactly one request, also when the
\* gesture runs the submit handler twice.
C9_OneSubmissionPerGesture ==
    [][(lastEvent'.runs >= 1 /\ Trim(inputValue) # <<>>)
        => /\ UserCount(messages') = UserCount(messages) + 1
           /\ Len(exchanges') = Len(exchanges) + 1
           /\ lastEvent'.accepted = 1]_vars

\* A click ran the handler twice and one submission was accepted.
C9_Witness ==
    /\ lastEvent.type = "gesture"
    /\ lastEvent.runs = 2
    /\ lastEvent.accepted = 1

\* C10: if every dispatched request eventually settles, every accepted
\* submission ends with exactly one bot node (reply or error text) and has
\* none before; after any failure a non-empty submission is still accepted.
C10_EveryExchangeCompletes ==
    /\ \A i \in 1..MaxSubmits :
          (i \in DOMAIN exchanges) ~> (i \in Completed)
    /\ [](\A i \in DOMAIN exchanges :
            Cardinality(NodesOf(messages, "bot", i)) = IF i \in Completed THEN 1 ELSE 0)
    /\ [][(lastEvent'.runs >= 1 /\ Trim(inputValue) # <<>>)
            => /\ Len(exchanges') = Len(exchanges) + 1
               /\ exchanges'[Len(exchanges')].pc = "fetch"]_vars

\* A submission was accepted after an earlier exchange had failed.
C10_Witness ==
    /\ SettledByFailure
    /\ lastSettled.xid \in Completed
    /\ \E j \in DOMAIN exchanges :
          /\ j > lastSettled.xid
          /\ \A b \in EffectPositions("bot", lastSettled.xid) :
                \E u \in EffectPositions("user", j) : b < u

\* ------------------------------------------ vocabulary of the later claims
\* The user and bot nodes of a list, in order.
MessageNodes(ms) == SelectSeq(ms, LAMBDA n : n.kind # "typing")

BotNodes(ms) == SelectSeq(ms, LAMBDA n : n.kind = "bot")

BotEffects == SelectSeq(trace, LAMBDA e : e.ev = "bot")

XidsOf(seq) == [k \in DOMAIN seq |-> seq[k].xid]

IsPrefix(s, t) == Len(s) <= Len(t) /\ SubSeq(t, 1, Len(s)) = s

EffectCount(ev) == Cardinality({p \in DOMAIN trace : trace[p].ev = ev})

\* The step accepted a submission.
Accepts == Len(exchanges') = Len(exchanges) + 1

\* C11: one request is dispatched per accepted submission and none is sent
\* again: the requests dispatched so far are as many as the user nodes,
\* whether earlier exchanges succeeded or failed.
C11_OneRequestPerSubmission ==
    /\ EffectCount("request") = UserCount(messages)
    /\ Len(exchanges) = UserCount(messages)
    /\ \A i \in DOMAIN exchanges : Cardinality(EffectPositions("request", i)) = 1

\* A further submission was made after an exchange had failed.
C11_Witness ==
    /\ SettledByFailure
    /\ Len(exchanges) = 2
    /\ \A b \in EffectPositions("bot", lastSettled.xid) :
          \E r \in EffectPositions("request", 2) : b < r

\* C12: bot nodes stand in the list in the order in which the responses
\* were processed, not in submission order, and the response of every
\* completed exchange is rendered, however late it arrives.
C12_RepliesInArrivalOrder ==
    /\ XidsOf(BotNodes(messages)) = XidsOf(BotEffects)
    /\ \A i \in DOMAIN exchanges :
          i \in Completed <=> NodesOf(messages, "bot", i) # {}

\* The reply to the second submission stands before the reply to the first.
C12_Witness ==
    \E p, q \in DOMAIN messages :
        /\ p < q
        /\ messages[p].kind = "bot" /\ messages[p].xid = 2
        /\ messages[q].kind = "bot" /\ messages[q].xid = 1

\* C13: hideTypingIndicator removes the earliest indicator node, not the
\* one of the completing exchange: the indicators left in the list are
\* those appended by the submissions made last, as many as exchanges are in
\* flight, so an exchange still in flight can have lost its indicator to
\* another one that completed.
C13_EarliestIndicatorRemoved ==
    {messages[p].xid : p \in TypingPositions(messages)}
        = {i \in DOMAIN exchanges : i > Len(exchanges) - Cardinality(InFlight)}

\* The first exchange is in flight without its indicator; the indicator of
\* the second, completed exchange is still shown.
C13_Witness ==
    /\ 1 \in InFlight
    /\ 2 \in Completed
    /\ NodesOf(messages, "typing", 1) = {}
    /\ NodesOf(messages, "typing", 2) # {}

\* C14: the list changes only by appending nodes at its end and by removing
\* a typing-indicator node: user and bot nodes are never removed, changed
\* or reordered.
C14_AppendOrRemoveIndicatorOnly ==
    [][/\ IsPrefix(MessageNodes(messages), MessageNodes(messages'))
       /\ \/ IsPrefix(messages, messages')
          \/ \E t \in TypingPositions(messages) :
                IsPrefix(RemoveAt(messages, t), messages')]_vars

\* An indicator has been removed from between message nodes.
C14_Witness ==
    /\ JustSettled
    /\ \E p \in DOMAIN messages :
          /\ p < Len(messages)
          /\ messages[p].kind = "typing"
          /\ messages[p].xid # lastSettled.xid

\* C15: for an accepted submission the user node and the message field of
\* the request both hold the trimmed input value, and the input field is
\* empty when the handler returns.
C15_TrimmedTextRenderedAndSent ==
    [][Accepts
        => LET i == Len(exchanges')
           IN  /\ \E p \in DOMAIN messages' :
                     messages'[p] = [kind |-> "user",
                                     content |-> Trim(inputValue), xid |-> i]
               /\ exchanges'[i].body.message = Trim(inputValue)
               /\ exchanges'[i].pc = "fetch"
               /\ inputValue' = <<>>]_vars

\* A submission has just been accepted; its exchange is in flight and the
\* input field is empty.
C15_Witness ==
    /\ lastEvent.accepted = 1
    /\ inputValue = <<>>
    /\ exchanges[Len(exchanges)].pc = "fetch"
    /\ exchanges[Len(exchanges)].body.message \in Words

\* C16: the greeting is rendered once, before anything else, and stays the
\* first node of the list.
C16_GreetingFirstAndOnce ==
    /\ messages[1] = [kind |-> "bot", content |-> GREETING, xid |-> 0]
    /\ Cardinality({p \in DOMAIN messages : messages[p].xid = 0}) = 1
    /\ Cardinality({p \in DOMAIN messages : messages[p].content = GREETING}) = 1
    /\ trace[1] = Effect("bot", 0)
    /\ Cardinality({p \in DOMAIN trace : trace[p].xid = 0}) = 1

\* Submissions were made and an indicator was removed after the greeting.
C16_Witness ==
    /\ Len(exchanges) = 2
    /\ EffectCount("hide") >= 1
    /\ Len(messages) >= 4

\* C17: the indicators in the list are as many as the exchanges in flight,
\* and every completing exchange has removed exactly one.
C17_IndicatorsMatchInFlight ==
    /\ TypingCount = Cardinality(InFlight)
    /\ EffectCount("hide") = Cardinality(Completed)
    /\ \A i \in Completed : Cardinality(EffectPositions("hide", i)) = 1

\* Two exchanges overlapped and both have completed: no indicator is left.
C17_Witness ==
    /\ Completed = {1, 2}
    /\ TypingCount = 0
    /\ \A r \in EffectPositions("request", 2) :
          \A b \in EffectPositions("bot", 1) : r < b

\* C18: a request carries the conversationId of the moment of its
\* submission and is not changed by later responses, and conversationId is
\* the id of the success response processed last, whatever the order of
\* submission.
C18_IdReadAtSubmission ==
    [][/\ \A i \in DOMAIN exchanges : exchanges'[i].body = exchanges[i].body
       /\ Accepts
            => Field(exchanges'[Len(exchanges')].body, "conversation_id")
                 = conversationId
       /\ (lastSettled'.cause = "response"
             /\ Field(lastSettled'.data, "status") = "success")
            => conversationId' = Field(lastSettled'.data, "conversation_id")]_vars

\* Both exchanges succeeded, the second was sent with a null id while the
\* first was in flight, and the first, processed last, set the identifier.
C18_Witness ==
    /\ Completed = {1, 2}
    /\ \A p \in DOMAIN messages :
          messages[p].kind = "bot" /\ messages[p].xid # 0
             => messages[p].content \in ReplyTexts
    /\ \A b2 \in EffectPositions("bot", 2) :
          \A b1 \in EffectPositions("bot", 1) : b2 < b1
    /\ exchanges[2].body = [message |-> exchanges[2].body.message,
                            conversation_id |-> NULL]
    /\ lastSettled.xid = 1
    /\ conversationId \in ServerIds

\* C19: conversationId is written only when a success response is
\* processed; failures and submissions leave it unchanged.
C19_IdWrittenOnlyOnSuccess ==
    [][conversationId' # conversationId
        => /\ lastEvent'.type = "settled"
           /\ lastSettled'.cause = "response"
           /\ Field(lastSettled'.data, "status") = "success"
           /\ conversationId' = Field(lastSettled'.data, "conversation_id")]_vars

\* After a success and then a failure an empty submission was made, and
\* the identifier is still the stored one.
C19_Witness ==
    /\ lastEvent.type = "gesture"
    /\ lastEvent.accepted = 0
    /\ Completed = {1, 2}
    /\ SettledByFailure
    /\ IsSet(conversationId)

====
